---------------------------- MODULE Spec2Model ----------------------------
(***************************************************************************)
(* Trade journal backend: the trade-matching engine match_trades, the      *)
(* hold time calculate_hold_time, the import request import_with_mapping   *)
(* and the series get_cumulative_pnl of src/backend/server.py, and the     *)
(* orders-file parser parse_fidelity_orders_format of                      *)
(* src/backend/import_legacy.py.                                           *)
(*                                                                         *)
(* Money is counted in whole cents and proration is exact rational         *)
(* arithmetic: the Python code computes with binary floats, the model with *)
(* the real numbers those floats approximate.  A fee share is kept as a    *)
(* fraction (numerator, denominator).  pnl and fees are the values before  *)
(* round(., 2).  A timestamp is a natural number of ticks, TicksPerSecond  *)
(* ticks to the second.  A string the code formats or matches against a    *)
(* pattern is a sequence of one-character strings.  A record of the input  *)
(* list is referred to by its index in raw_trades, which is how the Python *)
(* code shares one dict between raw_trades, by_symbol and the lots.  The   *)
(* field text of a record says that its numeric fields hold text, as they  *)
(* do after a round trip through raw_imports.csv.  An exception that       *)
(* leaves match_trades ends the run in pc = "raised".                      *)
(***************************************************************************)
EXTENDS Integers, Sequences, FiniteSets, TLC

(***************************************************************************)
(* Bounds of the model                                                     *)
(***************************************************************************)
MaxLen == 3

MaxQty == 3

MaxTime == 2

\* resolution of a timestamp
TicksPerSecond == 2

\* rows of an upload
MaxRows == 2

\* records in raw_imports.csv before an upload
MaxStored == 1

(***************************************************************************)
(* Input universe                                                          *)
(***************************************************************************)
EquitySymbol == "AAPL"

OptionSymbol == "SPY251219P670"

Symbols == {EquitySymbol, OptionSymbol}

Sides == {"Buy", "Sell"}

Quantities == 1..MaxQty

SmallQuantities == {1, 2}

Times == 1..MaxTime

\* cents: differences of 500 (5.00), 501 (5.01) and 1 (0.01)
Prices == {1000, 1500, 1501}

FeeValues == {0, 3}

NoOrder == -1

\* the option symbol as the broker's export writes it
DashedOptionSymbol == "-SPY251219P670"

\* a bond, named by its CUSIP
BondSymbol == "38141GC59"

SymbolTexts == {"", EquitySymbol, OptionSymbol, DashedOptionSymbol, BondSymbol}

\* the characters of a symbol text
Spelling(symbol) ==
    CASE symbol = "" -> <<>>
      [] symbol = EquitySymbol -> <<"A", "A", "P", "L">>
      [] symbol = OptionSymbol ->
            <<"S", "P", "Y", "2", "5", "1", "2", "1", "9", "P", "6", "7", "0">>
      [] symbol = DashedOptionSymbol ->
            <<"-", "S", "P", "Y", "2", "5", "1", "2", "1", "9", "P", "6", "7", "0">>
      [] symbol = BondSymbol ->
            <<"3", "8", "1", "4", "1", "G", "C", "5", "9">>

\* the symbol text of a spelling
TextOf(chars) == CHOOSE symbol \in SymbolTexts : Spelling(symbol) = chars

DigitChars == <<"0", "1", "2", "3", "4", "5", "6", "7", "8", "9">>

IsDigitChar(c) == \E d \in 1..10 : DigitChars[d] = c

\* [A-Z]
IsUpperChar(c) ==
    c \in {"A", "B", "C", "D", "E", "F", "G", "H", "I", "J", "K", "L", "M",
           "N", "O", "P", "Q", "R", "S", "T", "U", "V", "W", "X", "Y", "Z"}

\* [A-Z]+\d{6}[PC]\d+ matches with the last letter of [A-Z]+ at place j
OptionPatternAt(chars, j) ==
    /\ j >= 1
    /\ j + 8 <= Len(chars)
    /\ IsUpperChar(chars[j])
    /\ \A k \in 1..6 : IsDigitChar(chars[j + k])
    /\ chars[j + 7] \in {"P", "C"}
    /\ IsDigitChar(chars[j + 8])

\* is_option = bool(re.search(r'[A-Z]+\d{6}[PC]\d+', symbol))
IsOption(symbol) ==
    \E j \in 1..Len(Spelling(symbol)) : OptionPatternAt(Spelling(symbol), j)

Multiplier(symbol) == IF IsOption(symbol) THEN 100 ELSE 1

\* the record import_with_mapping builds for an accepted row
MkTrade(symbol, action, quantity, price, fees, dt) ==
    [Symbol |-> symbol, Action |-> action, Amount |-> quantity,
     order_datetime |-> dt, price |-> price,
     trade_value |-> price * quantity * Multiplier(symbol),
     fees |-> fees, import_order |-> NoOrder, text |-> FALSE]

\* the same record as load_raw_imports returns it after save_raw_imports
\* wrote it: csv.DictReader yields every field as text (Amount '1', price
\* '10.0', fees '0.0'); order_datetime is parsed back at lines 678-680
FromCsv(trade) == [trade EXCEPT !.text = TRUE]

Executions(syms, qtys, prices, feeset, times) ==
    {MkTrade(s, a, q, p, f, t) : s \in syms, a \in Sides, q \in qtys,
                                 p \in prices, f \in feeset, t \in times}

\* every list of at most n records of S
Inputs(S, n) == UNION {[1..k -> S] : k \in 0..n}

\* the same list with strictly increasing timestamps 1, 2, ...
Timed(f) == [i \in DOMAIN f |-> [f[i] EXCEPT !.order_datetime = i]]

(***************************************************************************)
(* Helpers of match_trades                                                 *)
(***************************************************************************)
\* the texts of an Action cell: the two import_with_mapping writes, one
\* that names no side, and two that name a side and a leg of the position
ActionTexts == {"Buy", "Sell", "Dividend", "Sell Opening", "buy closing"}

\* the characters of an action text or of a keyword
Letters(text) ==
    CASE text = "Buy" -> <<"B", "u", "y">>
      [] text = "Sell" -> <<"S", "e", "l", "l">>
      [] text = "Dividend" -> <<"D", "i", "v", "i", "d", "e", "n", "d">>
      [] text = "Sell Opening" ->
            <<"S", "e", "l", "l", " ", "O", "p", "e", "n", "i", "n", "g">>
      [] text = "buy closing" ->
            <<"b", "u", "y", " ", "c", "l", "o", "s", "i", "n", "g">>
      [] text = "BUY" -> <<"B", "U", "Y">>
      [] text = "OPENING" -> <<"O", "P", "E", "N", "I", "N", "G">>
      [] text = "SELL" -> <<"S", "E", "L", "L">>
      [] text = "CLOSING" -> <<"C", "L", "O", "S", "I", "N", "G">>

LowerCase ==
    <<"a", "b", "c", "d", "e", "f", "g", "h", "i", "j", "k", "l", "m",
      "n", "o", "p", "q", "r", "s", "t", "u", "v", "w", "x", "y", "z">>

UpperCase ==
    <<"A", "B", "C", "D", "E", "F", "G", "H", "I", "J", "K", "L", "M",
      "N", "O", "P", "Q", "R", "S", "T", "U", "V", "W", "X", "Y", "Z">>

\* str.upper()
Upper(chars) ==
    [k \in DOMAIN chars |->
        IF \E n \in 1..26 : LowerCase[n] = chars[k]
        THEN UpperCase[CHOOSE n \in 1..26 : LowerCase[n] = chars[k]]
        ELSE chars[k]]

\* word in chars
Contains(chars, word) ==
    \E i \in 1..(Len(chars) - Len(word) + 1) :
        SubSeq(chars, i, i + Len(word) - 1) = word

\* the keywords found in action.upper(), for every action text
KeywordsFound ==
    [action \in ActionTexts |->
        {word \in {"BUY", "OPENING", "SELL", "CLOSING"} :
            Contains(Upper(Letters(action)), Letters(word))}]

Keywords(action) == KeywordsFound[action]

\* faulty variant of IsBuyAction: SELL and CLOSING are looked for first
IsBuyActionUnlessSell(action) ==
    /\ Keywords(action) \cap {"BUY", "OPENING"} # {}
    /\ Keywords(action) \cap {"SELL", "CLOSING"} = {}

IsBuyAction(action) == Keywords(action) \cap {"BUY", "OPENING"} # {}

IsSellAction(action) ==
    ~IsBuyAction(action) /\ Keywords(action) \cap {"SELL", "CLOSING"} # {}

\* enumerate + by_symbol[symbol].append: the annotation of every record
Annotate(raw) == [i \in DOMAIN raw |-> [raw[i] EXCEPT !.import_order = i]]

RECURSIVE SelectIdx(_, _, _)
SelectIdx(raw, symbol, i) ==
    IF i > Len(raw) THEN <<>>
    ELSE IF raw[i].Symbol = symbol
         THEN <<i>> \o SelectIdx(raw, symbol, i + 1)
         ELSE SelectIdx(raw, symbol, i + 1)

RECURSIVE SymbolOrder(_, _, _)
SymbolOrder(raw, i, seen) ==
    IF i > Len(raw) THEN <<>>
    ELSE IF raw[i].Symbol \in seen
         THEN SymbolOrder(raw, i + 1, seen)
         ELSE <<raw[i].Symbol>> \o SymbolOrder(raw, i + 1, seen \cup {raw[i].Symbol})

\* by_symbol: the groups in order of first appearance, each a list of
\* references (indices) in input order
GroupBySymbol(raw) ==
    LET order == SymbolOrder(raw, 1, {})
    IN  [g \in DOMAIN order |->
            [symbol |-> order[g], trades |-> SelectIdx(raw, order[g], 1)]]

\* faulty variant of KeyLess: ties broken by the later import first
KeyLessLatestFirst(a, b) ==
    \/ a.order_datetime < b.order_datetime
    \/ a.order_datetime = b.order_datetime /\ a.import_order > b.import_order

\* sort key (order_datetime, _import_order), compared as Python tuples
KeyLess(a, b) ==
    \/ a.order_datetime < b.order_datetime
    \/ a.order_datetime = b.order_datetime /\ a.import_order < b.import_order

RECURSIVE InsertSorted(_, _, _)
InsertSorted(raw, sorted, i) ==
    IF sorted = <<>> THEN <<i>>
    ELSE IF ~KeyLess(raw[Head(sorted)], raw[i])
         THEN <<i>> \o sorted
         ELSE <<Head(sorted)>> \o InsertSorted(raw, Tail(sorted), i)

\* faulty variant of SortTrades: the records stay in input order
KeepInputOrder(raw, idxs) == idxs

\* trades.sort(key=...): a stable sort (an element goes before the elements
\* of the sorted tail that are not less than it)
RECURSIVE SortTrades(_, _)
SortTrades(raw, idxs) ==
    IF idxs = <<>> THEN <<>>
    ELSE InsertSorted(raw, SortTrades(raw, Tail(idxs)), Head(idxs))

\* faulty variant of Classify: inclusive bounds
ClassifyInclusive(pnl) ==
    IF pnl >= 500 THEN "Win"
    ELSE IF pnl <= -500 THEN "Lose"
    ELSE "Scratch"

Classify(pnl) ==
    IF pnl > 500 THEN "Win"
    ELSE IF pnl < -500 THEN "Lose"
    ELSE "Scratch"

\* int(diff.total_seconds()): int() drops the fraction, towards zero
WholeSeconds(diff) ==
    IF diff >= 0 THEN diff \div TicksPerSecond
    ELSE -((-diff) \div TicksPerSecond)

\* faulty variant of ClampNegative: the test total_seconds < 0 is missing
KeepNegative(total_seconds) == total_seconds

\* if total_seconds < 0: total_seconds = 0
ClampNegative(total_seconds) == IF total_seconds < 0 THEN 0 ELSE total_seconds

\* str(n)
RECURSIVE Decimal(_)
Decimal(n) ==
    IF n < 0 THEN <<"-">> \o Decimal(-n)
    ELSE IF n < 10 THEN <<DigitChars[n + 1]>>
    ELSE Decimal(n \div 10) \o <<DigitChars[(n % 10) + 1]>>

\* f"{n:02d}": zero-padded to a width of two, wider when n needs it
TwoDigits(n) == IF Len(Decimal(n)) < 2 THEN <<"0">> \o Decimal(n) ELSE Decimal(n)

calculate_hold_time(entry_dt, exit_dt) ==
    LET total_seconds == ClampNegative(WholeSeconds(exit_dt - entry_dt))
        hours == total_seconds \div 3600
        minutes == (total_seconds % 3600) \div 60
        seconds == total_seconds % 60
    IN  TwoDigits(hours) \o <<":">> \o TwoDigits(minutes) \o <<":">>
          \o TwoDigits(seconds)

\* faulty variant of IsFullMatch: remaining_qty < quantity
IsFullMatchStrict(entry, quantity) == entry.remaining_qty < quantity

\* remaining_qty <= quantity: the head lot is used up
IsFullMatch(entry, quantity) == entry.remaining_qty <= quantity

MatchedQty(entry, quantity) ==
    IF IsFullMatch(entry, quantity) THEN entry.remaining_qty ELSE quantity

\* faulty variant of QueueAfterMatch: the used-up head lot is not popped
QueueAfterMatchKeepHead(queue, quantity) ==
    IF IsFullMatch(Head(queue), quantity)
    THEN queue
    ELSE <<[Head(queue) EXCEPT !.remaining_qty = @ - quantity]>> \o Tail(queue)

\* the opposite queue after one match
QueueAfterMatch(queue, quantity) ==
    IF IsFullMatch(Head(queue), quantity)
    THEN Tail(queue)
    ELSE <<[Head(queue) EXCEPT !.remaining_qty = @ - quantity]>> \o Tail(queue)

\* trade_value * (matched_qty / trade['Amount'])
Prorate(value, part, whole) == (value * part) \div whole

ShortMatchRevenue(sell_entry, quantity) ==
    IF IsFullMatch(sell_entry, quantity)
    THEN sell_entry.revenue
    ELSE (sell_entry.revenue \div sell_entry.quantity) * MatchedQty(sell_entry, quantity)

\* faulty variant of LongMatchCost: a used-up lot gives its whole cost
LongMatchCostWholeLot(buy_entry, quantity) ==
    IF buy_entry.remaining_qty <= quantity
    THEN buy_entry.cost
    ELSE (buy_entry.cost \div buy_entry.quantity) * quantity

LongMatchCost(buy_entry, quantity) ==
    (buy_entry.cost \div buy_entry.quantity) * MatchedQty(buy_entry, quantity)

\* entry_fees + exit_fees as one fraction
TotalFees(raw, entry, trade, matched_qty) ==
    [num |-> raw[entry.trade].fees * matched_qty * trade.Amount
             + trade.fees * matched_qty * entry.quantity,
     den |-> entry.quantity * trade.Amount]

ShortTrade(raw, t, sell_entry, quantity) ==
    LET trade == raw[t]
        matched_qty == MatchedQty(sell_entry, quantity)
        pnl == ShortMatchRevenue(sell_entry, quantity)
               - Prorate(trade.trade_value, matched_qty, trade.Amount)
    IN  [Symbol |-> trade.Symbol, Side |-> "Short",
         EntryAction |-> "Sell", ExitAction |-> "Buy",
         EntryTime |-> sell_entry.datetime, ExitTime |-> trade.order_datetime,
         EntryPrice |-> sell_entry.price, ExitPrice |-> trade.price,
         Quantity |-> matched_qty, pnl |-> pnl,
         fees |-> TotalFees(raw, sell_entry, trade, matched_qty),
         Result |-> Classify(pnl),
         HoldTime |-> calculate_hold_time(sell_entry.datetime, trade.order_datetime),
         entry_trade |-> sell_entry.trade, exit_trade |-> t]

LongTrade(raw, t, buy_entry, qty_to_match) ==
    LET trade == raw[t]
        matched_qty == MatchedQty(buy_entry, qty_to_match)
        pnl == Prorate(trade.trade_value, matched_qty, trade.Amount)
               - LongMatchCost(buy_entry, qty_to_match)
    IN  [Symbol |-> trade.Symbol, Side |-> "Long",
         EntryAction |-> "Buy", ExitAction |-> "Sell",
         EntryTime |-> buy_entry.datetime, ExitTime |-> trade.order_datetime,
         EntryPrice |-> buy_entry.price, ExitPrice |-> trade.price,
         Quantity |-> matched_qty, pnl |-> pnl,
         fees |-> TotalFees(raw, buy_entry, trade, matched_qty),
         Result |-> Classify(pnl),
         HoldTime |-> calculate_hold_time(buy_entry.datetime, trade.order_datetime),
         entry_trade |-> buy_entry.trade, exit_trade |-> t]

\* while quantity > 0 and sell_queue: ...
RECURSIVE CloseShorts(_, _, _, _, _)
CloseShorts(raw, t, quantity, queue, out) ==
    IF quantity > 0 /\ queue # <<>>
    THEN CloseShorts(raw, t,
                     quantity - MatchedQty(Head(queue), quantity),
                     QueueAfterMatch(queue, quantity),
                     Append(out, ShortTrade(raw, t, Head(queue), quantity)))
    ELSE [quantity |-> quantity, queue |-> queue, out |-> out]

\* while qty_to_match > 0 and buy_queue: ...
RECURSIVE CloseLongs(_, _, _, _, _)
CloseLongs(raw, t, qty_to_match, queue, out) ==
    IF qty_to_match > 0 /\ queue # <<>>
    THEN CloseLongs(raw, t,
                    qty_to_match - MatchedQty(Head(queue), qty_to_match),
                    QueueAfterMatch(queue, qty_to_match),
                    Append(out, LongTrade(raw, t, Head(queue), qty_to_match)))
    ELSE [quantity |-> qty_to_match, queue |-> queue, out |-> out]

\* one pass of either loop raises: the fee lines multiply the fees field of
\* the opening and of the closing record by a float (TypeError on text) and
\* divide by the lot's quantity and by the record's Amount
\* (ZeroDivisionError on 0, TypeError on text)
MatchRaises(raw, t, entry) ==
    \/ raw[entry.trade].text
    \/ raw[t].text
    \/ entry.quantity = 0
    \/ raw[t].Amount = 0

\* some pass of the loop over the opposite queue raises
RECURSIVE CloseRaises(_, _, _, _)
CloseRaises(raw, t, quantity, queue) ==
    IF quantity > 0 /\ queue # <<>>
    THEN \/ MatchRaises(raw, t, Head(queue))
         \/ CloseRaises(raw, t, quantity - MatchedQty(Head(queue), quantity),
                        QueueAfterMatch(queue, quantity))
    ELSE FALSE

\* the Buy branch raises: in the loop, or at line 375 where the leftover
\* is divided by trade['Amount']
BuyRaises(raw, t, sell_queue) ==
    \/ CloseRaises(raw, t, raw[t].Amount, sell_queue)
    \/ /\ CloseShorts(raw, t, raw[t].Amount, sell_queue, <<>>).quantity > 0
       /\ raw[t].text

\* the Sell branch raises: in the loop only (line 446 divides by sell_qty,
\* the parsed quantity)
SellRaises(raw, t, buy_queue) == CloseRaises(raw, t, raw[t].Amount, buy_queue)

\* faulty variant of BuyLot: the lot takes the whole Amount, not the leftover
BuyLotWholeAmount(raw, t, quantity) ==
    [datetime |-> raw[t].order_datetime, price |-> raw[t].price,
     quantity |-> raw[t].Amount, remaining_qty |-> raw[t].Amount,
     cost |-> raw[t].trade_value,
     trade |-> t]

BuyLot(raw, t, quantity) ==
    [datetime |-> raw[t].order_datetime, price |-> raw[t].price,
     quantity |-> quantity, remaining_qty |-> quantity,
     cost |-> Prorate(raw[t].trade_value, quantity, raw[t].Amount),
     trade |-> t]

\* faulty variant of SellLot: the lot takes the whole Amount, not the leftover
SellLotWholeAmount(raw, t, qty_to_match) ==
    [datetime |-> raw[t].order_datetime, price |-> raw[t].price,
     quantity |-> raw[t].Amount, remaining_qty |-> raw[t].Amount,
     revenue |-> raw[t].trade_value,
     trade |-> t]

SellLot(raw, t, qty_to_match) ==
    [datetime |-> raw[t].order_datetime, price |-> raw[t].price,
     quantity |-> qty_to_match, remaining_qty |-> qty_to_match,
     revenue |-> Prorate(raw[t].trade_value, qty_to_match, raw[t].Amount),
     trade |-> t]

\* faulty variant of AppendLeftover: the guard quantity > 0 is missing
AppendAlways(queue, quantity, lot) == Append(queue, lot)

\* faulty variant of AppendLeftover: queue.insert(0, lot)
PrependLeftover(queue, quantity, lot) ==
    IF quantity > 0 THEN <<lot>> \o queue ELSE queue

\* if quantity > 0: queue.append(lot)
AppendLeftover(queue, quantity, lot) ==
    IF quantity > 0 THEN Append(queue, lot) ELSE queue

\* faulty variant of FreshQueue: the queue outlives the loop
KeepQueue(old) == old

\* the queues a symbol's loop starts with
FreshQueue(old) == <<>>

\* one iteration of "for trade in trades" on a Buy
BuyStep(raw, t, bq, sq, out) ==
    LET r == CloseShorts(raw, t, raw[t].Amount, sq, out)
    IN  [buy_queue |-> AppendLeftover(bq, r.quantity, BuyLot(raw, t, r.quantity)),
         sell_queue |-> r.queue,
         out |-> r.out,
         leftover |-> r.quantity]

\* one iteration of "for trade in trades" on a Sell
SellStep(raw, t, bq, sq, out) ==
    LET r == CloseLongs(raw, t, raw[t].Amount, bq, out)
    IN  [buy_queue |-> r.queue,
         sell_queue |-> AppendLeftover(sq, r.quantity, SellLot(raw, t, r.quantity)),
         out |-> r.out,
         leftover |-> r.quantity]

TradeStep(raw, t, bq, sq, out) ==
    IF IsBuyAction(raw[t].Action) THEN BuyStep(raw, t, bq, sq, out)
    ELSE IF IsSellAction(raw[t].Action) THEN SellStep(raw, t, bq, sq, out)
    ELSE [buy_queue |-> bq, sell_queue |-> sq, out |-> out, leftover |-> 0]

\* the loop over one symbol's sorted records
RECURSIVE RunTrades(_, _, _, _, _)
RunTrades(raw, sorted, bq, sq, out) ==
    IF sorted = <<>> THEN out
    ELSE LET r == TradeStep(raw, Head(sorted), bq, sq, out)
         IN  RunTrades(raw, Tail(sorted), r.buy_queue, r.sell_queue, r.out)

\* the loop over by_symbol.items()
RECURSIVE RunSymbols(_, _, _)
RunSymbols(raw, groups, out) ==
    IF groups = <<>> THEN out
    ELSE RunSymbols(raw, Tail(groups),
                    RunTrades(raw, SortTrades(raw, Head(groups).trades),
                              FreshQueue(<<>>), FreshQueue(<<>>), out))

\* match_trades as a function of its argument
MatchTrades(raw) == RunSymbols(Annotate(raw), GroupBySymbol(raw), <<>>)

(***************************************************************************)
(* Helpers of import_with_mapping                                          *)
(*   A row of the upload is read through a complete column mapping without *)
(*   a fees column: symbol and action are the cell texts, price and        *)
(*   quantity the numbers float() reads (0 for a cell it cannot read),     *)
(*   date_ok says whether parse_flexible_date reads the date cell and time *)
(*   is the timestamp it reads.  No text of the model holds white space.   *)
(***************************************************************************)
\* symbol_str.strip().lstrip('-').strip()
RECURSIVE StripDashes(_)
StripDashes(chars) ==
    IF chars # <<>> /\ Head(chars) = "-" THEN StripDashes(Tail(chars)) ELSE chars

AllUpper(chars, a, b) == \A k \in a..b : IsUpperChar(chars[k])

AllDigits(chars, a, b) == \A k \in a..b : IsDigitChar(chars[k])

\* re.match(r'^[A-Z]+\d+[PC]\d+$', symbol)
IsCleanOption(chars) ==
    \E a \in 1..Len(chars), b \in 1..Len(chars) :
        /\ a + 1 < b
        /\ b < Len(chars)
        /\ AllUpper(chars, 1, a)
        /\ AllDigits(chars, a + 1, b - 1)
        /\ chars[b] \in {"P", "C"}
        /\ AllDigits(chars, b + 1, Len(chars))

\* the places where re.search(r'([A-Z]+\d{6}[PC]\d+)', symbol) can start:
\* a run of letters from i to j with the rest of the pattern after j
OptionStarts(chars) ==
    {i \in 1..Len(chars) :
        \E j \in i..Len(chars) : AllUpper(chars, i, j) /\ OptionPatternAt(chars, j)}

\* match.group(1): from the leftmost start to the end of the strike digits
OptionGroup(chars) ==
    LET i == CHOOSE i \in OptionStarts(chars) :
                 \A k \in OptionStarts(chars) : i <= k
        j == CHOOSE j \in i..Len(chars) :
                 AllUpper(chars, i, j) /\ OptionPatternAt(chars, j)
        e == CHOOSE e \in (j + 8)..Len(chars) :
                 /\ AllDigits(chars, j + 8, e)
                 /\ e = Len(chars) \/ ~IsDigitChar(chars[e + 1])
    IN  SubSeq(chars, i, e)

\* re.match(r'^[A-Z]{2,5}$', base)
IsTicker(chars) ==
    Len(chars) >= 2 /\ Len(chars) <= 5 /\ AllUpper(chars, 1, Len(chars))

\* lines 232-259
extract_symbol(symbol_str) ==
    LET symbol == StripDashes(Spelling(symbol_str))
    IN  IF symbol_str = "" THEN ""
        ELSE IF IsCleanOption(symbol) THEN TextOf(symbol)
        ELSE IF OptionStarts(symbol) # {} THEN TextOf(OptionGroup(symbol))
        ELSE IF IsTicker(symbol) THEN TextOf(symbol)
        ELSE TextOf(symbol)

\* lines 261-272
determine_action(action_str, quantity) ==
    IF Keywords(action_str) \cap {"BUY", "OPENING"} # {} THEN "Buy"
    ELSE IF Keywords(action_str) \cap {"SELL", "CLOSING"} # {} THEN "Sell"
    ELSE IF quantity < 0 THEN "Sell"
    ELSE "Buy"

Abs(n) == IF n < 0 THEN -n ELSE n

\* if not order_datetime: order_datetime = datetime.now()
OrderDatetime(row, now) == IF row.date_ok THEN row.time ELSE now

\* if symbol and price > 0 and quantity > 0
RowAccepted(row) ==
    /\ extract_symbol(row.symbol) # ""
    /\ row.price > 0
    /\ Abs(row.quantity) > 0

\* the record built for an accepted row
RowTrade(row, now) ==
    MkTrade(extract_symbol(row.symbol),
            determine_action(row.action, row.quantity),
            Abs(row.quantity), row.price, 0, OrderDatetime(row, now))

\* f"{Symbol}_{Action}_{Amount}_{price}": text and number print alike
DedupKey(trade) == <<trade.Symbol, trade.Action, trade.Amount, trade.price>>

\* faulty variant of UniqueIdx: existing_keys.add(key) is missing
RECURSIVE UniqueIdxStoredOnly(_, _, _)
UniqueIdxStoredOnly(new, i, keys) ==
    IF i > Len(new) THEN <<>>
    ELSE IF DedupKey(new[i]) \in keys
         THEN UniqueIdxStoredOnly(new, i + 1, keys)
         ELSE <<i>> \o UniqueIdxStoredOnly(new, i + 1, keys)

\* lines 659-668: the places in new_trades of the records whose key is
\* not yet known
RECURSIVE UniqueIdx(_, _, _)
UniqueIdx(new, i, keys) ==
    IF i > Len(new) THEN <<>>
    ELSE IF DedupKey(new[i]) \in keys
         THEN UniqueIdx(new, i + 1, keys)
         ELSE <<i>> \o UniqueIdx(new, i + 1, keys \cup {DedupKey(new[i])})

\* unique_new_trades
UniqueNew(new, keys) ==
    [k \in DOMAIN UniqueIdx(new, 1, keys) |-> new[UniqueIdx(new, 1, keys)[k]]]

\* lines 660-668: duplicate_count at the end of the same loop
RECURSIVE DuplicateCount(_, _, _)
DuplicateCount(new, i, keys) ==
    IF i > Len(new) THEN 0
    ELSE IF DedupKey(new[i]) \in keys
         THEN 1 + DuplicateCount(new, i + 1, keys)
         ELSE DuplicateCount(new, i + 1, keys \cup {DedupKey(new[i])})

KeysOf(stored) == {DedupKey(stored[i]) : i \in DOMAIN stored}

\* save_raw_imports followed by load_raw_imports
CsvRoundTrip(all_trades) == [i \in DOMAIN all_trades |-> FromCsv(all_trades[i])]

\* datetime.now() while the row at place row_pos is read: later than every
\* timestamp of the store and of the upload, and later for a later row
Now(row_pos) == MaxStored + MaxRows + row_pos

(***************************************************************************)
(* Helpers of parse_fidelity_orders_format (import_legacy.py)              *)
(*   A row of the orders file: filled says whether the Status cell holds   *)
(*   'Filled' and not 'Verified Canceled', time_ok whether the Order Time  *)
(*   cell parses, price is the number after 'Filled at $' (0 when there is *)
(*   none), amount_ok whether int() reads the Amount cell.                 *)
(***************************************************************************)
\* is_option = bool(re.search(r'[PC]\d+$', symbol))
LegacyIsOption(symbol) ==
    LET chars == Spelling(symbol)
    IN  \E i \in 1..Len(chars) :
            /\ chars[i] \in {"P", "C"}
            /\ i < Len(chars)
            /\ AllDigits(chars, i + 1, Len(chars))

LegacyMultiplier(symbol) == IF LegacyIsOption(symbol) THEN 100 ELSE 1

\* the row passes the tests before the Amount cell is read
LegacyRowRead(row) == row.filled /\ row.time_ok /\ row.price # 0

\* if symbol and quantity != 0
LegacyRowAccepted(row) == row.symbol # "" /\ row.amount # 0

\* the record built for an accepted row; it has no fees key, which
\* match_trades reads as 0
LegacyTrade(row) ==
    [Symbol |-> row.symbol, Action |-> row.action, Amount |-> Abs(row.amount),
     order_datetime |-> row.time, price |-> row.price,
     trade_value |-> row.price * Abs(row.amount) * LegacyMultiplier(row.symbol),
     fees |-> 0, import_order |-> NoOrder, text |-> FALSE]

(***************************************************************************)
(* Helpers of get_cumulative_pnl                                           *)
(*   The clock of the model starts at 2025-01-08 00:00:00.  A row of       *)
(*   trades.csv is read back as text: its Trade Date and Exit Time are the *)
(*   strings match_trades formatted, its PnL the amount float() reads.     *)
(***************************************************************************)
\* exit_dt.strftime('%Y-%m-%d')
DateText(dt) ==
    <<"2", "0", "2", "5", "-", "0", "1", "-">>
      \o TwoDigits(8 + (dt \div (86400 * TicksPerSecond)))

\* exit_dt.strftime('%H:%M:%S'): the fraction of a second is dropped
TimeText(dt) ==
    LET second == (dt \div TicksPerSecond) % 86400
    IN  TwoDigits(second \div 3600) \o <<":">>
          \o TwoDigits((second % 3600) \div 60) \o <<":">>
          \o TwoDigits(second % 60)

\* the row csv.DictReader yields for a trade of the ledger
LedgerRow(m) ==
    [TradeDate |-> DateText(m.ExitTime), ExitTime |-> TimeText(m.ExitTime),
     PnL |-> m.pnl]

\* f"{t.get('Trade Date', '')} {t.get('Exit Time', '')}"
SortKey(row) == row.TradeDate \o <<" ">> \o row.ExitTime

\* ord(c) of the characters of a sort key
CharCode(c) ==
    CASE c = " " -> 32
      [] c = "-" -> 45
      [] c = ":" -> 58
      [] OTHER   -> 47 + CHOOSE d \in 1..10 : DigitChars[d] = c

\* a < b for two Python strings
RECURSIVE StrLess(_, _)
StrLess(a, b) ==
    IF b = <<>> THEN FALSE
    ELSE IF a = <<>> THEN TRUE
    ELSE IF Head(a) # Head(b) THEN CharCode(Head(a)) < CharCode(Head(b))
    ELSE StrLess(Tail(a), Tail(b))

RECURSIVE InsertByKey(_, _, _)
InsertByKey(rows, sorted, i) ==
    IF sorted = <<>> THEN <<i>>
    ELSE IF ~StrLess(SortKey(rows[Head(sorted)]), SortKey(rows[i]))
         THEN <<i>> \o sorted
         ELSE <<Head(sorted)>> \o InsertByKey(rows, Tail(sorted), i)

\* sorted(trades, key=...): stable, as places in trades
RECURSIVE SortedByKey(_, _)
SortedByKey(rows, idxs) ==
    IF idxs = <<>> THEN <<>>
    ELSE InsertByKey(rows, SortedByKey(rows, Tail(idxs)), Head(idxs))

\* faulty variant of Accumulate: the running total starts again at every trade
AccumulateReset(cumulative, pnl) == pnl

\* cumulative += pnl
Accumulate(cumulative, pnl) == cumulative + pnl

\* the loop of lines 974-983; row is the place of the entry's trade in the
\* ledger
RECURSIVE CumulativeEntries(_, _, _)
CumulativeEntries(rows, order, cumulative) ==
    IF order = <<>> THEN <<>>
    ELSE LET row == rows[Head(order)]
             total == Accumulate(cumulative, row.PnL)
         IN  <<[date |-> SortKey(row), pnl |-> row.PnL,
                cumulative_pnl |-> total, row |-> Head(order)]>>
               \o CumulativeEntries(rows, Tail(order), total)

\* get_cumulative_pnl on the rows of trades.csv
CumulativePnl(ledger) ==
    LET rows == [k \in DOMAIN ledger |-> LedgerRow(ledger[k])]
    IN  CumulativeEntries(rows,
                          SortedByKey(rows, [k \in DOMAIN rows |-> k]), 0)

(***************************************************************************)
(* State                                                                   *)
(*   lots_opened is a history variable: the records that opened a lot, in  *)
(*   the order the lots were appended, with the side of the lot.           *)
(*   entry_dt, exit_dt and hold_time are the arguments and the result of a *)
(*   call of calculate_hold_time.                                          *)
(*   upload, row_pos and new_trades belong to a request to                 *)
(*   import_with_mapping, response is its outcome ("none": no request),    *)
(*   raw_imports_csv and trades_csv are the two files of the data          *)
(*   directory.  accepted_rows and passed_rows are history variables: the  *)
(*   rows of the upload behind new_trades and behind unique_new_trades.    *)
(*   series is the answer of get_cumulative_pnl.  data_before is a history *)
(*   variable: the two files as they were when the request arrived.        *)
(*   duplicate_count is the counter of the request, imported_count the     *)
(*   field of its answer.                                                  *)
(***************************************************************************)
VARIABLES raw_trades, pc, by_symbol, sym_pos, trades, t_pos,
          buy_queue, sell_queue, matched_trades, calls, first_result,
          lots_opened, entry_dt, exit_dt, hold_time,
          upload, row_pos, new_trades, accepted_rows, passed_rows,
          raw_imports_csv, trades_csv, response, series, data_before,
          duplicate_count, imported_count

hold_vars == <<entry_dt, exit_dt, hold_time>>

import_vars == <<upload, row_pos, new_trades, accepted_rows, passed_rows,
                 raw_imports_csv, trades_csv, response>>

query_vars == <<series>>

request_vars == <<data_before>>

count_vars == <<duplicate_count, imported_count>>

other_vars == <<hold_vars, import_vars, query_vars, request_vars, count_vars>>

vars == <<raw_trades, pc, by_symbol, sym_pos, trades, t_pos,
          buy_queue, sell_queue, matched_trades, calls, first_result,
          lots_opened, hold_vars, import_vars, query_vars, request_vars, count_vars,
          count_vars>>

\* no request to import_with_mapping is being served
NoImport ==
    /\ upload = <<>>
    /\ row_pos = 0
    /\ new_trades = <<>>
    /\ accepted_rows = <<>>
    /\ passed_rows = <<>>
    /\ raw_imports_csv = <<>>
    /\ trades_csv = <<>>
    /\ response = "none"

InitCall(input) ==
    /\ raw_trades = input
    /\ pc = "entry"
    /\ by_symbol = <<>>
    /\ sym_pos = 0
    /\ trades = <<>>
    /\ t_pos = 0
    /\ buy_queue = <<>>
    /\ sell_queue = <<>>
    /\ matched_trades = <<>>
    /\ calls = 1
    /\ first_result = <<>>
    /\ lots_opened = <<>>
    /\ entry_dt = 0
    /\ exit_dt = 0
    /\ hold_time = <<>>
    /\ series = <<>>
    /\ data_before = [raw_imports |-> <<>>, trades |-> <<>>]
    /\ duplicate_count = 0
    /\ imported_count = 0
    /\ NoImport

\* both symbols interleaved, quantities 1..MaxQty, strictly increasing times
Init ==
    \E f \in Inputs(Executions(Symbols, Quantities, {1000}, {0}, {1}), MaxLen) :
        InitCall(Timed(f))

\* one symbol (equity or option), three prices around the 5.00 band
InitPnl ==
    \E s \in Symbols :
        \E f \in Inputs(Executions({s}, SmallQuantities, Prices, {0}, {1}), MaxLen) :
            InitCall(Timed(f))

\* fees and prices together
InitFees ==
    \E s \in Symbols :
        \E f \in Inputs(Executions({s}, SmallQuantities, {1000, 1501},
                                   FeeValues, {1}), MaxLen) :
            InitCall(Timed(f))

\* one record more, so that two lots and two closing Sells fit
InitFifo ==
    \E f \in Inputs(Executions({EquitySymbol}, SmallQuantities, {1000, 1500},
                               {0}, {1}), MaxLen + 1) :
        InitCall(Timed(f))

\* colliding timestamps, in any input order
InitTie ==
    \E input \in Inputs(Executions({EquitySymbol}, SmallQuantities, {1000},
                                   {0}, Times), MaxLen) :
        InitCall(input)

\* both symbols interleaved, quantities 1 and 2
InitLive ==
    \E f \in Inputs(Executions(Symbols, SmallQuantities, {1000}, {0}, {1}), MaxLen) :
        InitCall(Timed(f))

\* one symbol, every action text
InitSides ==
    \E f \in Inputs({MkTrade(EquitySymbol, a, q, 1000, 0, 1) :
                         a \in ActionTexts, q \in SmallQuantities}, MaxLen) :
        InitCall(Timed(f))

\* the list import_with_mapping passes at line 682: the records reloaded
\* from raw_imports.csv, then the records of the upload
InitStored ==
    \E f \in Inputs(Executions(Symbols, SmallQuantities, {1000}, {0}, {1}), MaxLen) :
        \E n \in 0..Len(f) :
            InitCall(Timed([i \in DOMAIN f |->
                               IF i <= n THEN FromCsv(f[i]) ELSE f[i]]))

\* seconds around the minute, the hour, the day and a hundred hours
HoldSeconds == {0, 1, 59, 60, 3599, 3600, 86399, 360000}

HoldInstants ==
    {s * TicksPerSecond + f : s \in HoldSeconds, f \in 0..(TicksPerSecond - 1)}

\* a call of calculate_hold_time on any two instants
InitHold ==
    /\ raw_trades = <<>>
    /\ pc = "hold_time"
    /\ by_symbol = <<>>
    /\ sym_pos = 0
    /\ trades = <<>>
    /\ t_pos = 0
    /\ buy_queue = <<>>
    /\ sell_queue = <<>>
    /\ matched_trades = <<>>
    /\ calls = 1
    /\ first_result = <<>>
    /\ lots_opened = <<>>
    /\ entry_dt \in HoldInstants
    /\ exit_dt \in HoldInstants
    /\ hold_time = <<>>
    /\ series = <<>>
    /\ data_before = [raw_imports |-> <<>>, trades |-> <<>>]
    /\ duplicate_count = 0
    /\ imported_count = 0
    /\ NoImport

\* a row every cell of which is good
ValidRows(symbol) ==
    {[symbol |-> symbol, action |-> a, quantity |-> 1, price |-> 1000,
      date_ok |-> TRUE, time |-> 0] : a \in Sides}

\* the row, and the row with one cell spoilt: a price of 0 (also what an
\* unreadable price becomes) or below, a quantity of 0 or below, a date no
\* format reads, no symbol, an action that is neither side
RowDefects(row) ==
    {row,
     [row EXCEPT !.price = 0],
     [row EXCEPT !.price = -1000],
     [row EXCEPT !.quantity = 0],
     [row EXCEPT !.quantity = -1],
     [row EXCEPT !.date_ok = FALSE],
     [row EXCEPT !.symbol = ""],
     [row EXCEPT !.action = "Dividend"],
     [row EXCEPT !.action = "Dividend", !.quantity = -1]}

Rows(symbol) == UNION {RowDefects(row) : row \in ValidRows(symbol)}

\* rows of an orders file: every symbol text with a positive, a negative
\* and no amount, and each of them with one cell spoilt
LegacyRows ==
    LET good == {[symbol |-> s, action |-> "Buy", amount |-> q, price |-> 200,
                  filled |-> TRUE, time_ok |-> TRUE, amount_ok |-> TRUE,
                  time |-> 0] : s \in SymbolTexts, q \in {-1, 0, 1}}
    IN  UNION {{row,
                [row EXCEPT !.filled = FALSE],
                [row EXCEPT !.time_ok = FALSE],
                [row EXCEPT !.price = 0],
                [row EXCEPT !.amount_ok = FALSE]} : row \in good}

\* a call of parse_fidelity_orders_format on an orders file
InitLegacy ==
    \E u \in Inputs(LegacyRows, MaxRows) :
        /\ raw_trades = <<>>
        /\ pc = "legacy_rows"
        /\ by_symbol = <<>>
        /\ sym_pos = 0
        /\ trades = <<>>
        /\ t_pos = 0
        /\ buy_queue = <<>>
        /\ sell_queue = <<>>
        /\ matched_trades = <<>>
        /\ calls = 1
        /\ first_result = <<>>
        /\ lots_opened = <<>>
        /\ entry_dt = 0
        /\ exit_dt = 0
        /\ hold_time = <<>>
        /\ upload = [i \in DOMAIN u |-> [u[i] EXCEPT !.time = i]]
        /\ row_pos = 0
        /\ new_trades = <<>>
        /\ accepted_rows = <<>>
        /\ passed_rows = <<>>
        /\ raw_imports_csv = <<>>
        /\ trades_csv = <<>>
        /\ response = "none"
        /\ series = <<>>
        /\ data_before = [raw_imports |-> <<>>, trades |-> <<>>]
        /\ duplicate_count = 0
        /\ imported_count = 0

\* the lists an earlier import of good rows can have stored: the keys of
\* their records differ
StoredLists ==
    {f \in Inputs(Executions({EquitySymbol}, {1}, {1000}, {0}, {1}), MaxStored) :
        \A i, j \in DOMAIN f : i # j => DedupKey(f[i]) # DedupKey(f[j])}

\* a request to import_with_mapping: the data directory as an earlier
\* import left it, and an upload of one symbol whose dates follow those of
\* the store
InitImport ==
    \E prev \in StoredLists, s \in {EquitySymbol, DashedOptionSymbol} :
        \E u \in Inputs(Rows(s), MaxRows) :
            /\ raw_trades = <<>>
            /\ pc = "rows"
            /\ by_symbol = <<>>
            /\ sym_pos = 0
            /\ trades = <<>>
            /\ t_pos = 0
            /\ buy_queue = <<>>
            /\ sell_queue = <<>>
            /\ matched_trades = <<>>
            /\ calls = 1
            /\ first_result = <<>>
            /\ lots_opened = <<>>
            /\ entry_dt = 0
            /\ exit_dt = 0
            /\ hold_time = <<>>
            /\ upload = [i \in DOMAIN u |-> [u[i] EXCEPT !.time = Len(prev) + i]]
            /\ row_pos = 0
            /\ new_trades = <<>>
            /\ accepted_rows = <<>>
            /\ passed_rows = <<>>
            /\ raw_imports_csv = CsvRoundTrip(Timed(prev))
            /\ trades_csv = MatchTrades(Timed(prev))
            /\ response = "pending"
            /\ series = <<>>
            /\ data_before = [raw_imports |-> raw_imports_csv, trades |-> trades_csv]
            /\ duplicate_count = 0
            /\ imported_count = 0

\* good rows of two symbols: a Buy at one price, a Sell at the same price
\* or 5.00 above it
LedgerRows ==
    {[symbol |-> s, action |-> r[1], quantity |-> 1, price |-> r[2],
      date_ok |-> TRUE, time |-> 0] :
        s \in {EquitySymbol, DashedOptionSymbol},
        r \in {<<"Buy", 1000>>, <<"Sell", 1000>>, <<"Sell", 1500>>}}

\* the dates of the rows of an upload of n rows: half a second apart, half
\* a day apart with the latest row first, or all the same
Clocks(n) ==
    {[i \in 1..n |-> i],
     [i \in 1..n |-> (n + 1 - i) * 43200 * TicksPerSecond],
     [i \in 1..n |-> 43200 * TicksPerSecond]}

\* a first import into an empty data directory, of rows enough for a round
\* trip in each of two symbols
InitLedger ==
    \E u \in Inputs(LedgerRows, MaxRows + 2) :
        \E clock \in Clocks(Len(u)) :
            /\ raw_trades = <<>>
            /\ pc = "rows"
            /\ by_symbol = <<>>
            /\ sym_pos = 0
            /\ trades = <<>>
            /\ t_pos = 0
            /\ buy_queue = <<>>
            /\ sell_queue = <<>>
            /\ matched_trades = <<>>
            /\ calls = 1
            /\ first_result = <<>>
            /\ lots_opened = <<>>
            /\ entry_dt = 0
            /\ exit_dt = 0
            /\ hold_time = <<>>
            /\ upload = [i \in DOMAIN u |-> [u[i] EXCEPT !.time = clock[i]]]
            /\ row_pos = 0
            /\ new_trades = <<>>
            /\ accepted_rows = <<>>
            /\ passed_rows = <<>>
            /\ raw_imports_csv = <<>>
            /\ trades_csv = <<>>
            /\ response = "pending"
            /\ series = <<>>
            /\ data_before = [raw_imports |-> raw_imports_csv, trades |-> trades_csv]
            /\ duplicate_count = 0
            /\ imported_count = 0

(***************************************************************************)
(* match_trades, one step per loop iteration                               *)
(***************************************************************************)
\* lines 287-294
Group ==
    /\ pc = "entry"
    /\ raw_trades' = Annotate(raw_trades)
    /\ by_symbol' = GroupBySymbol(raw_trades)
    /\ matched_trades' = <<>>
    /\ sym_pos' = 0
    /\ trades' = <<>>
    /\ t_pos' = 0
    /\ lots_opened' = <<>>
    /\ pc' = "loop"
    /\ UNCHANGED <<buy_queue, sell_queue, calls, first_result>>
    /\ UNCHANGED other_vars

\* lines 296-304: next symbol, sort, fresh queues
NextSymbol ==
    /\ pc = "loop"
    /\ t_pos = Len(trades)
    /\ sym_pos < Len(by_symbol)
    /\ sym_pos' = sym_pos + 1
    /\ trades' = SortTrades(raw_trades, by_symbol[sym_pos + 1].trades)
    /\ t_pos' = 0
    /\ buy_queue' = FreshQueue(buy_queue)
    /\ sell_queue' = FreshQueue(sell_queue)
    /\ UNCHANGED <<raw_trades, pc, by_symbol, matched_trades, calls,
                   first_result, lots_opened>>
    /\ UNCHANGED other_vars

\* lines 311-377
ProcessBuy ==
    /\ pc = "loop"
    /\ t_pos < Len(trades)
    /\ IsBuyAction(raw_trades[trades[t_pos + 1]].Action)
    /\ LET t == trades[t_pos + 1]
           r == BuyStep(raw_trades, t, buy_queue, sell_queue, matched_trades)
       IN  IF BuyRaises(raw_trades, t, sell_queue)
           THEN /\ pc' = "raised"
                /\ UNCHANGED <<sell_queue, matched_trades, buy_queue,
                               lots_opened, t_pos>>
           ELSE /\ sell_queue' = r.sell_queue
                /\ matched_trades' = r.out
                /\ buy_queue' = r.buy_queue
                /\ lots_opened' = IF r.leftover > 0
                                  THEN Append(lots_opened,
                                              [side |-> "Buy", trade |-> t])
                                  ELSE lots_opened
                /\ t_pos' = t_pos + 1
                /\ pc' = pc
    /\ UNCHANGED <<raw_trades, by_symbol, sym_pos, trades, calls, first_result>>
    /\ UNCHANGED other_vars

\* lines 379-448
ProcessSell ==
    /\ pc = "loop"
    /\ t_pos < Len(trades)
    /\ IsSellAction(raw_trades[trades[t_pos + 1]].Action)
    /\ LET t == trades[t_pos + 1]
           r == SellStep(raw_trades, t, buy_queue, sell_queue, matched_trades)
       IN  IF SellRaises(raw_trades, t, buy_queue)
           THEN /\ pc' = "raised"
                /\ UNCHANGED <<sell_queue, matched_trades, buy_queue,
                               lots_opened, t_pos>>
           ELSE /\ buy_queue' = r.buy_queue
                /\ matched_trades' = r.out
                /\ sell_queue' = r.sell_queue
                /\ lots_opened' = IF r.leftover > 0
                                  THEN Append(lots_opened,
                                              [side |-> "Sell", trade |-> t])
                                  ELSE lots_opened
                /\ t_pos' = t_pos + 1
                /\ pc' = pc
    /\ UNCHANGED <<raw_trades, by_symbol, sym_pos, trades, calls, first_result>>
    /\ UNCHANGED other_vars

\* lines 306-311 and 379: the Action names no side, neither branch is taken
SkipTrade ==
    /\ pc = "loop"
    /\ t_pos < Len(trades)
    /\ ~IsBuyAction(raw_trades[trades[t_pos + 1]].Action)
    /\ ~IsSellAction(raw_trades[trades[t_pos + 1]].Action)
    /\ t_pos' = t_pos + 1
    /\ UNCHANGED <<raw_trades, pc, by_symbol, sym_pos, trades, buy_queue,
                   sell_queue, matched_trades, calls, first_result, lots_opened>>
    /\ UNCHANGED other_vars

\* line 450
Return ==
    /\ pc = "loop"
    /\ t_pos = Len(trades)
    /\ sym_pos = Len(by_symbol)
    /\ pc' = "returned"
    /\ UNCHANGED <<raw_trades, by_symbol, sym_pos, trades, t_pos, buy_queue,
                   sell_queue, matched_trades, calls, first_result, lots_opened>>
    /\ UNCHANGED other_vars

\* the caller keeps the ledger and calls match_trades again on the same list
SecondCall ==
    /\ pc = "returned"
    /\ calls = 1
    /\ first_result' = matched_trades
    /\ calls' = 2
    /\ pc' = "entry"
    /\ UNCHANGED <<raw_trades, by_symbol, sym_pos, trades, t_pos, buy_queue,
                   sell_queue, matched_trades, lots_opened>>
    /\ UNCHANGED other_vars

\* lines 274-283
ComputeHoldTime ==
    /\ pc = "hold_time"
    /\ hold_time' = calculate_hold_time(entry_dt, exit_dt)
    /\ pc' = "hold_done"
    /\ UNCHANGED <<raw_trades, by_symbol, sym_pos, trades, t_pos, buy_queue,
                   sell_queue, matched_trades, calls, first_result,
                   lots_opened, entry_dt, exit_dt>>
    /\ UNCHANGED <<import_vars, query_vars, request_vars, count_vars>>

\* lines 544-650: one row of the upload
ImportRow ==
    /\ pc = "rows"
    /\ row_pos < Len(upload)
    /\ LET row == upload[row_pos + 1]
       IN  IF RowAccepted(row)
           THEN /\ new_trades' = Append(new_trades,
                                        RowTrade(row, Now(row_pos + 1)))
                /\ accepted_rows' = Append(accepted_rows, row_pos + 1)
           ELSE UNCHANGED <<new_trades, accepted_rows>>
    /\ row_pos' = row_pos + 1
    /\ UNCHANGED <<raw_trades, pc, by_symbol, sym_pos, trades, t_pos, buy_queue,
                   sell_queue, matched_trades, calls, first_result,
                   lots_opened, hold_vars, query_vars, request_vars, count_vars,
                   upload, passed_rows,
                   raw_imports_csv, trades_csv, response>>

\* lines 652-682: load the store, drop the duplicates, save the store, and
\* call match_trades on the whole list
MergeAndSave ==
    /\ pc = "rows"
    /\ row_pos = Len(upload)
    /\ LET existing_trades == raw_imports_csv
           kept == UniqueIdx(new_trades, 1, KeysOf(existing_trades))
           all_trades == existing_trades
                           \o UniqueNew(new_trades, KeysOf(existing_trades))
       IN  /\ passed_rows' = [k \in DOMAIN kept |-> accepted_rows[kept[k]]]
           /\ raw_imports_csv' = IF all_trades = <<>> THEN raw_imports_csv
                                  ELSE CsvRoundTrip(all_trades)
           /\ duplicate_count' = DuplicateCount(new_trades, 1,
                                                 KeysOf(existing_trades))
           /\ raw_trades' = all_trades
    /\ pc' = "entry"
    /\ UNCHANGED <<by_symbol, sym_pos, trades, t_pos, buy_queue, sell_queue,
                   matched_trades, calls, first_result, lots_opened,
                   hold_vars, query_vars, request_vars, imported_count,
                   upload, row_pos, new_trades,
                   accepted_rows, trades_csv, response>>

\* lines 683-691: match_trades has returned; imported_count is
\* len(unique_new_trades)
SaveMatched ==
    /\ pc = "returned"
    /\ response = "pending"
    /\ trades_csv' = IF matched_trades = <<>> THEN trades_csv ELSE matched_trades
    /\ response' = "200"
    /\ imported_count' = Len(passed_rows)
    /\ pc' = "done"
    /\ UNCHANGED <<raw_trades, by_symbol, sym_pos, trades, t_pos, buy_queue,
                   sell_queue, matched_trades, calls, first_result,
                   lots_opened, hold_vars, query_vars, request_vars,
                   duplicate_count,
                   upload, row_pos, new_trades,
                   accepted_rows, passed_rows, raw_imports_csv>>

\* lines 693-695: match_trades has raised
ImportFails ==
    /\ pc = "raised"
    /\ response = "pending"
    /\ response' = "400"
    /\ pc' = "done"
    /\ UNCHANGED <<raw_trades, by_symbol, sym_pos, trades, t_pos, buy_queue,
                   sell_queue, matched_trades, calls, first_result,
                   lots_opened, hold_vars, query_vars, request_vars, count_vars,
                   upload, row_pos, new_trades,
                   accepted_rows, passed_rows, raw_imports_csv, trades_csv>>

\* import_legacy.py lines 16-64: one row of the orders file; int() on the
\* Amount cell is outside every try
LegacyRow ==
    /\ pc = "legacy_rows"
    /\ row_pos < Len(upload)
    /\ LET row == upload[row_pos + 1]
       IN  IF LegacyRowRead(row) /\ ~row.amount_ok
           THEN /\ pc' = "raised"
                /\ UNCHANGED <<new_trades, accepted_rows, row_pos>>
           ELSE /\ IF LegacyRowRead(row) /\ LegacyRowAccepted(row)
                   THEN /\ new_trades' = Append(new_trades, LegacyTrade(row))
                        /\ accepted_rows' = Append(accepted_rows, row_pos + 1)
                   ELSE UNCHANGED <<new_trades, accepted_rows>>
                /\ row_pos' = row_pos + 1
                /\ pc' = pc
    /\ UNCHANGED <<raw_trades, by_symbol, sym_pos, trades, t_pos, buy_queue,
                   sell_queue, matched_trades, calls, first_result,
                   lots_opened, hold_vars, query_vars, request_vars, count_vars,
                   upload, passed_rows,
                   raw_imports_csv, trades_csv, response>>

\* import_legacy.py line 66: return trades
LegacyReturn ==
    /\ pc = "legacy_rows"
    /\ row_pos = Len(upload)
    /\ pc' = "legacy_done"
    /\ UNCHANGED <<raw_trades, by_symbol, sym_pos, trades, t_pos, buy_queue,
                   sell_queue, matched_trades, calls, first_result,
                   lots_opened, hold_vars, query_vars, request_vars, count_vars,
                   import_vars>>

\* lines 965-985: GET /cumulative-pnl after the import has answered
GetCumulativePnl ==
    /\ pc = "done"
    /\ response = "200"
    /\ series' = CumulativePnl(trades_csv)
    /\ pc' = "cumulative_done"
    /\ UNCHANGED <<raw_trades, by_symbol, sym_pos, trades, t_pos, buy_queue,
                   sell_queue, matched_trades, calls, first_result,
                   lots_opened, hold_vars, import_vars, request_vars,
                   count_vars>>

Next == Group \/ NextSymbol \/ ProcessBuy \/ ProcessSell \/ Return

NextTwice == Group \/ NextSymbol \/ ProcessBuy \/ ProcessSell \/ Return \/ SecondCall

Spec == Init /\ [][Next]_vars

SpecPnl == InitPnl /\ [][Next]_vars

SpecFees == InitFees /\ [][Next]_vars

SpecFifo == InitFifo /\ [][Next]_vars

SpecTie == InitTie /\ [][NextTwice]_vars

SpecStored == InitStored /\ [][Next]_vars

NextSides ==
    Group \/ NextSymbol \/ ProcessBuy \/ ProcessSell \/ SkipTrade \/ Return

SpecSides == InitSides /\ [][NextSides]_vars

\* match_trades runs on one thread from its call to its return: a step
\* that can be taken is taken
SpecLive == InitLive /\ [][Next]_vars /\ WF_vars(Next)

\* the same calls, for the properties of the states alone
SpecOrder == InitLive /\ [][Next]_vars

NextHold == ComputeHoldTime

NextImport ==
    \/ ImportRow \/ MergeAndSave
    \/ Group \/ NextSymbol \/ ProcessBuy \/ ProcessSell \/ Return
    \/ SaveMatched \/ ImportFails

SpecImport == InitImport /\ [][NextImport]_vars

NextLegacy == LegacyRow \/ LegacyReturn

SpecLegacy == InitLegacy /\ [][NextLegacy]_vars

SpecHold == InitHold /\ [][NextHold]_vars

NextLedger ==
    \/ ImportRow \/ MergeAndSave
    \/ Group \/ NextSymbol \/ ProcessBuy \/ ProcessSell \/ Return
    \/ SaveMatched \/ GetCumulativePnl

SpecLedger == InitLedger /\ [][NextLedger]_vars

(***************************************************************************)
(* Derived values the properties speak of                                  *)
(***************************************************************************)
RECURSIVE SumQuantity(_)
SumQuantity(ms) == IF ms = <<>> THEN 0 ELSE Head(ms).Quantity + SumQuantity(Tail(ms))

RECURSIVE SumRemaining(_)
SumRemaining(queue) ==
    IF queue = <<>> THEN 0 ELSE Head(queue).remaining_qty + SumRemaining(Tail(queue))

RECURSIVE SumAmount(_, _)
SumAmount(raw, idxs) ==
    IF idxs = <<>> THEN 0 ELSE raw[Head(idxs)].Amount + SumAmount(raw, Tail(idxs))

IsOfSymbol(symbol, m) == m.Symbol = symbol

RECURSIVE TradesOf(_, _)
TradesOf(symbol, ms) ==
    IF ms = <<>> THEN <<>>
    ELSE IF IsOfSymbol(symbol, Head(ms))
         THEN <<Head(ms)>> \o TradesOf(symbol, Tail(ms))
         ELSE TradesOf(symbol, Tail(ms))

RECURSIVE TradesOfSide(_, _)
TradesOfSide(side, ms) ==
    IF ms = <<>> THEN <<>>
    ELSE IF Head(ms).Side = side
         THEN <<Head(ms)>> \o TradesOfSide(side, Tail(ms))
         ELSE TradesOfSide(side, Tail(ms))

\* the loop over the current symbol's records has run to its end
SymbolDone == pc \in {"loop", "returned"} /\ sym_pos >= 1 /\ t_pos = Len(trades)

CurrentSymbol == by_symbol[sym_pos].symbol

MatchedOfCurrent == SumQuantity(TradesOf(CurrentSymbol, matched_trades))

OpenOfCurrent == SumRemaining(buy_queue) + SumRemaining(sell_queue)

InputOfCurrent == SumAmount(raw_trades, by_symbol[sym_pos].trades)

\* price difference times quantity times multiplier, entry to exit
GrossLong(m) == (m.ExitPrice - m.EntryPrice) * m.Quantity * Multiplier(m.Symbol)

(***************************************************************************)
(* C1  Quantity conservation                                               *)
(***************************************************************************)
\* C1 as stated: when a symbol's records are all processed, the matched
\* quantities of the symbol plus the remaining quantities of its open lots
\* equal the sum of Amount over the symbol's input records.
C1_ConservationAsStated ==
    SymbolDone => MatchedOfCurrent + OpenOfCurrent = InputOfCurrent

\* C1 amended: every matched unit uses one unit of the opening record and
\* one unit of the closing record, so twice the matched quantities plus the
\* remaining open quantities equal the sum of Amount over the input records.
C1_Conservation ==
    SymbolDone => 2 * MatchedOfCurrent + OpenOfCurrent = InputOfCurrent

\* the second symbol of the input is done, with a matched trade of its own
\* and a lot left open
C1_Witness ==
    /\ SymbolDone
    /\ sym_pos = 2
    /\ MatchedOfCurrent > 0
    /\ OpenOfCurrent > 0

(***************************************************************************)
(* C2  Short P&L from proportional revenue                                 *)
(***************************************************************************)
\* C2: every Short trade has pnl = (entry price - exit price) x matched
\* quantity x multiplier, also when the Buy uses up the rest of a lot that
\* an earlier Buy closed in part.
C2_ShortPnlProportional ==
    \A k \in DOMAIN matched_trades :
        matched_trades[k].Side = "Short" =>
            matched_trades[k].pnl = -GrossLong(matched_trades[k])

(***************************************************************************)
(* C3  Long P&L formula                                                    *)
(***************************************************************************)
\* C3: every Long trade has pnl = (exit price - entry price) x matched
\* quantity x multiplier, whatever the fees, and its Result is the class of
\* that amount; the fees appear in the fees field only.
C3_LongPnlFormula ==
    \A k \in DOMAIN matched_trades :
        LET m == matched_trades[k]
        IN  m.Side = "Long" =>
                /\ m.pnl = GrossLong(m)
                /\ m.Result = (IF GrossLong(m) > 500 THEN "Win"
                               ELSE IF GrossLong(m) < -500 THEN "Lose"
                               ELSE "Scratch")

\* a Long trade with fees whose lot is the leftover of a Buy that first
\* closed a short lot, and a Long trade that is a partial fill
C3_Witness ==
    /\ \E k, j \in DOMAIN matched_trades :
          /\ matched_trades[k].Side = "Long"
          /\ matched_trades[k].fees.num > 0
          /\ matched_trades[j].Side = "Short"
          /\ matched_trades[j].exit_trade = matched_trades[k].entry_trade
    /\ pc = "returned"

(***************************************************************************)
(* C4  One-sided position                                                  *)
(***************************************************************************)
\* C4: between two records and at the end, at most one of buy_queue and
\* sell_queue is non-empty.
C4_OneSided == buy_queue = <<>> \/ sell_queue = <<>>

\* a Sell has closed a long lot and its leftover has opened a short lot
C4_Witness ==
    /\ sell_queue # <<>>
    /\ \E k \in DOMAIN matched_trades :
          /\ matched_trades[k].Side = "Long"
          /\ matched_trades[k].exit_trade = Head(sell_queue).trade

(***************************************************************************)
(* C5  Fee proration                                                       *)
(***************************************************************************)
\* C5: the fees of every matched trade are the opening record's fee times
\* matched quantity over that record's Amount, plus the closing record's fee
\* times matched quantity over the closing record's Amount (as fractions:
\* cross-multiplied).
C5_FeeProration ==
    \A k \in DOMAIN matched_trades :
        LET m == matched_trades[k]
            entry == raw_trades[m.entry_trade]
            exit == raw_trades[m.exit_trade]
        IN  m.fees.num * (entry.Amount * exit.Amount)
              = (entry.fees * m.Quantity * exit.Amount
                 + exit.fees * m.Quantity * entry.Amount) * m.fees.den

(***************************************************************************)
(* C6  FIFO ordering                                                       *)
(***************************************************************************)
\* the records that opened a long lot, in the order the lots were opened
RECURSIVE LongLots(_)
LongLots(lots) ==
    IF lots = <<>> THEN <<>>
    ELSE IF Head(lots).side = "Buy"
         THEN <<Head(lots).trade>> \o LongLots(Tail(lots))
         ELSE LongLots(Tail(lots))

LongTrades == TradesOfSide("Long", matched_trades)

\* the place of the N-th Long trade's lot among the long lots (0: none)
LotPlace(n) ==
    LET lots == LongLots(lots_opened)
        at == {p \in DOMAIN lots : lots[p] = LongTrades[n].entry_trade}
    IN  IF at = {} THEN 0 ELSE CHOOSE p \in at : TRUE

\* C6 as stated: the entry price of the N-th Long trade is the price of the
\* N-th Buy that opened a long lot, for every N.
C6_NthTradeNthLot ==
    \A n \in DOMAIN LongTrades :
        n <= Len(LongLots(lots_opened)) =>
            LongTrades[n].EntryPrice = raw_trades[LongLots(lots_opened)[n]].price

\* C6 amended: the Long trades use the long lots in the order the lots were
\* opened.  The first Long trade enters at the first long lot; every later
\* one enters at the lot of the Long trade before it (a lot closed in
\* parts) or at the next lot opened; the entry price is that lot's price;
\* and the lots still open are the most recently opened ones, oldest first.
C6_FifoOrder ==
    LET lots == LongLots(lots_opened)
    IN  /\ \A n \in DOMAIN LongTrades :
              /\ LotPlace(n) >= 1
              /\ LongTrades[n].EntryPrice = raw_trades[lots[LotPlace(n)]].price
              /\ n = 1 => LotPlace(n) = 1
              /\ n > 1 => LotPlace(n) \in {LotPlace(n - 1), LotPlace(n - 1) + 1}
        /\ Len(buy_queue) <= Len(lots)
        /\ \A q \in DOMAIN buy_queue :
              buy_queue[q].trade = lots[Len(lots) - Len(buy_queue) + q]
        /\ (buy_queue # <<>> /\ LongTrades # <<>>) =>
              LotPlace(Len(LongTrades)) <= Len(lots) - Len(buy_queue) + 1

\* two long lots at different prices; the first is closed by two Sells and
\* the second by a later match
C6_Witness ==
    /\ Len(LongTrades) >= 3
    /\ LotPlace(1) = 1
    /\ LotPlace(2) = 1
    /\ LotPlace(3) = 2
    /\ LongTrades[3].EntryPrice # LongTrades[2].EntryPrice

(***************************************************************************)
(* C7  Long/short symmetry                                                 *)
(***************************************************************************)
SwapSides(raw) ==
    [i \in DOMAIN raw |->
        [raw[i] EXCEPT !.Action = IF @ = "Buy" THEN "Sell" ELSE "Buy"]]

MirrorTrade(m) ==
    [m EXCEPT !.Side = IF @ = "Long" THEN "Short" ELSE "Long",
              !.EntryAction = m.ExitAction,
              !.ExitAction = m.EntryAction,
              !.pnl = -@,
              !.Result = IF @ = "Win" THEN "Lose"
                         ELSE IF @ = "Lose" THEN "Win" ELSE "Scratch"]

\* C7: the ledger of the input with Buy and Sell swapped is the ledger of
\* the input with Long and Short exchanged, every pnl negated and Win and
\* Lose exchanged, trade by trade in the same order.
C7_Symmetry ==
    pc = "returned" =>
        MatchTrades(SwapSides(raw_trades))
            = [k \in DOMAIN matched_trades |-> MirrorTrade(matched_trades[k])]

C9_TieBreak ==
    /\ (pc = "loop" /\ sym_pos >= 1) =>
          \A i, j \in DOMAIN trades :
              i < j =>
                  \/ raw_trades[trades[i]].order_datetime
                        < raw_trades[trades[j]].order_datetime
                  \/ /\ raw_trades[trades[i]].order_datetime
                          = raw_trades[trades[j]].order_datetime
                     /\ trades[i] < trades[j]
    /\ \A k \in DOMAIN matched_trades :
          matched_trades[k].EntryTime = matched_trades[k].ExitTime =>
              matched_trades[k].entry_trade < matched_trades[k].exit_trade

\* a trade between two records of one timestamp, in an input list that is
\* not in time order
C9_Witness ==
    /\ pc = "returned"
    /\ \E k \in DOMAIN matched_trades :
          matched_trades[k].EntryTime = matched_trades[k].ExitTime
    /\ \E i, j \in DOMAIN raw_trades :
          i < j /\ raw_trades[i].order_datetime > raw_trades[j].order_datetime

(***************************************************************************)
(* C10  Idempotence of re-matching                                         *)
(***************************************************************************)
\* C10: a second call on the same list, whose records carry the first
\* call's annotation, returns the ledger the first call returned.
C10_Idempotent ==
    (pc = "returned" /\ calls = 2) => matched_trades = first_result

\* the second call has returned a ledger of two trades and left a lot open
C10_Witness ==
    /\ pc = "returned"
    /\ calls = 2
    /\ Len(first_result) >= 2
    /\ buy_queue \o sell_queue # <<>>

(***************************************************************************)
(* C11  Output ordering                                                    *)
(***************************************************************************)
\* record a comes no later than record b under (timestamp, import order)
KeyNotAfter(raw, a, b) ==
    \/ raw[a].order_datetime < raw[b].order_datetime
    \/ /\ raw[a].order_datetime = raw[b].order_datetime
       /\ a <= b

\* C11: within one symbol the trades of the ledger follow the order of
\* their closing records under (timestamp, import order), and the trades of
\* one closing record follow the order of their opening records, oldest
\* lot first.
C11_OutputOrder ==
    \A k, j \in DOMAIN matched_trades :
        (k < j /\ matched_trades[k].Symbol = matched_trades[j].Symbol) =>
            /\ KeyNotAfter(raw_trades, matched_trades[k].exit_trade,
                           matched_trades[j].exit_trade)
            /\ matched_trades[k].exit_trade = matched_trades[j].exit_trade =>
                  KeyNotAfter(raw_trades, matched_trades[k].entry_trade,
                              matched_trades[j].entry_trade)

\* one closing record has drained two lots whose opening records stand in
\* the input list against their time order
C11_Witness ==
    /\ pc = "returned"
    /\ \E k, j \in DOMAIN matched_trades :
          /\ k < j
          /\ matched_trades[k].exit_trade = matched_trades[j].exit_trade
          /\ matched_trades[k].entry_trade > matched_trades[j].entry_trade

(***************************************************************************)
(* C12  Opening and position flip                                          *)
(***************************************************************************)
Min(a, b) == IF a <= b THEN a ELSE b

\* the trades a step has appended to the ledger
Appended(before, after) == SubSeq(after, Len(before) + 1, Len(after))

\* one record of quantity q meets opposite lots that total T
OpensOrFlips(raw, t, own, opposite, own_after, before, after) ==
    LET q == raw[t].Amount
        T == SumRemaining(opposite)
    IN  /\ Len(after) >= Len(before)
        /\ SubSeq(after, 1, Len(before)) = before
        /\ SumQuantity(Appended(before, after)) = Min(q, T)
        /\ \A k \in DOMAIN Appended(before, after) :
              Appended(before, after)[k].exit_trade = t
        /\ T = 0 => after = before
        /\ IF q > T
           THEN /\ Len(own_after) = Len(own) + 1
                /\ SubSeq(own_after, 1, Len(own)) = own
                /\ own_after[Len(own_after)].quantity = q - T
                /\ own_after[Len(own_after)].remaining_qty = q - T
                /\ own_after[Len(own_after)].trade = t
           ELSE own_after = own

StepOpensOrFlips ==
    (pc = "loop" /\ t_pos' = t_pos + 1) =>
        LET t == trades[t_pos + 1]
        IN  IF IsBuyAction(raw_trades[t].Action)
            THEN OpensOrFlips(raw_trades, t, buy_queue, sell_queue, buy_queue',
                              matched_trades, matched_trades')
            ELSE OpensOrFlips(raw_trades, t, sell_queue, buy_queue, sell_queue',
                              matched_trades, matched_trades')

\* the records of the current symbol are all on one side
OneSidedInput ==
    \A i, j \in DOMAIN trades :
        raw_trades[trades[i]].Action = raw_trades[trades[j]].Action

\* C12: a record of quantity q that meets opposite open lots totalling T
\* matches exactly min(q, T) and, if and only if q > T, appends exactly one
\* lot of quantity q - T to the tail of the queue of its own side; with
\* T = 0 it emits no trade; a symbol whose records are all on one side
\* emits no trade.
C12_OpeningAndFlip ==
    /\ [][StepOpensOrFlips]_vars
    /\ [](SymbolDone /\ OneSidedInput =>
              TradesOf(CurrentSymbol, matched_trades) = <<>>)

\* a Sell of 3 has closed long lots of 2 in all and opened a short lot of 1
C12_Witness ==
    /\ Len(sell_queue) = 1
    /\ Head(sell_queue).quantity = 1
    /\ raw_trades[Head(sell_queue).trade].Amount = 3
    /\ \E k, j \in DOMAIN matched_trades :
          /\ k < j
          /\ matched_trades[k].exit_trade = Head(sell_queue).trade
          /\ matched_trades[j].exit_trade = Head(sell_queue).trade

(***************************************************************************)
(* C13  Lot lifecycle                                                      *)
(***************************************************************************)
\* the quantity the trades ms have taken from the lot that record t opened
RECURSIVE TakenFrom(_, _)
TakenFrom(t, ms) ==
    IF ms = <<>> THEN 0
    ELSE (IF Head(ms).entry_trade = t THEN Head(ms).Quantity ELSE 0)
         + TakenFrom(t, Tail(ms))

OpenLots == buy_queue \o sell_queue

LotsInBounds ==
    \A i \in DOMAIN OpenLots :
        /\ 1 <= OpenLots[i].remaining_qty
        /\ OpenLots[i].remaining_qty <= OpenLots[i].quantity

\* a step that processes one record either removes a queued lot, when the
\* trades of the step take all that remained of it, or keeps it with what
\* remains after the step; it never adds to a lot
StepKeepsOrRemoves ==
    (pc = "loop" /\ t_pos' = t_pos + 1) =>
        \A i \in DOMAIN OpenLots :
            LET lot == OpenLots[i]
                taken == TakenFrom(lot.trade,
                                   Appended(matched_trades, matched_trades'))
                after == buy_queue' \o sell_queue'
            IN  IF taken = lot.remaining_qty
                THEN \A j \in DOMAIN after : after[j].trade # lot.trade
                ELSE \E j \in DOMAIN after :
                        /\ after[j].trade = lot.trade
                        /\ after[j].quantity = lot.quantity
                        /\ after[j].remaining_qty = lot.remaining_qty - taken
                        /\ after[j].remaining_qty <= lot.remaining_qty

\* C13: every lot in a queue has 1 <= remaining_qty <= quantity; the
\* remaining quantity of a lot never increases; a lot leaves its queue
\* exactly when a match takes all that remained of it, so no lot with
\* nothing remaining stays in a queue.
C13_LotLifecycle == []LotsInBounds /\ [][StepKeepsOrRemoves]_vars

\* a long lot of 3 lost 2 to one Sell and its last unit to a second Sell,
\* which went on to open a short lot
C13_Witness ==
    /\ buy_queue = <<>>
    /\ sell_queue # <<>>
    /\ \E k, j \in DOMAIN matched_trades :
          /\ k < j
          /\ matched_trades[k].entry_trade = matched_trades[j].entry_trade
          /\ matched_trades[k].Quantity = 2
          /\ matched_trades[j].Quantity = 1
          /\ matched_trades[j].exit_trade = Head(sell_queue).trade

(***************************************************************************)
(* C14  Engine totality                                                    *)
(***************************************************************************)
\* the divisors of the proration lines: the quantity of every queued lot
\* and the Amount of every record
DivisorsNonZero ==
    /\ \A i \in DOMAIN OpenLots : OpenLots[i].quantity # 0
    /\ \A i \in DOMAIN raw_trades : raw_trades[i].Amount # 0

\* C14: on validated records (symbol, side Buy or Sell, quantity >= 1,
\* price > 0, fee >= 0, timestamp) match_trades never raises, no proration
\* divides by zero, and the run goes on until it returns.
C14_EngineTotal ==
    /\ pc # "raised"
    /\ DivisorsNonZero
    /\ pc # "returned" => ENABLED Next

\* returned from an input of two symbols, with a trade and with the lot a
\* position flip opened
C14_Witness ==
    /\ pc = "returned"
    /\ Len(by_symbol) = 2
    /\ \E k \in DOMAIN matched_trades, i \in DOMAIN lots_opened :
          matched_trades[k].exit_trade = lots_opened[i].trade

(***************************************************************************)
(* C15  Fault isolation across symbols                                     *)
(***************************************************************************)
\* the records of one symbol, in their order in the list
OnlySymbol(raw, symbol) == SelectSeq(raw, LAMBDA r : r.Symbol = symbol)

\* the trades without the positions of their records in the input list
StripRefs(ms) ==
    [k \in DOMAIN ms |-> [ms[k] EXCEPT !.entry_trade = 0, !.exit_trade = 0]]

\* every record of the symbol is as import_with_mapping built it
WellFormed(raw, symbol) ==
    \A i \in DOMAIN raw : raw[i].Symbol = symbol => ~raw[i].text

\* what the caller of match_trades gets: the ledger, or nothing when the
\* call raised
ReturnedLedger == IF pc = "returned" THEN matched_trades ELSE <<>>

\* C15: when the call is over, the ledger holds the trades of every symbol
\* whose records are well-formed, whatever the records of other symbols.
C15_FaultIsolation ==
    pc \in {"returned", "raised"} =>
        \A s \in Symbols :
            WellFormed(raw_trades, s) =>
                StripRefs(TradesOf(s, ReturnedLedger))
                  = StripRefs(MatchTrades(OnlySymbol(raw_trades, s)))

(***************************************************************************)
(* C17  Symbol independence                                                *)
(***************************************************************************)
\* every queued lot was opened by a record of the symbol being processed
QueuesOfCurrentSymbol ==
    \A i \in DOMAIN OpenLots :
        raw_trades[OpenLots[i].trade].Symbol = CurrentSymbol

\* C17: the trades of a symbol, their values and their order, are the
\* trades match_trades returns for the records of that symbol alone,
\* whatever records of other symbols stand between them; a queue never
\* holds a lot of another symbol.
C17_SymbolIndependence ==
    /\ QueuesOfCurrentSymbol
    /\ pc = "returned" =>
          \A s \in Symbols :
              StripRefs(TradesOf(s, matched_trades))
                = StripRefs(MatchTrades(OnlySymbol(raw_trades, s)))

\* a trade of one symbol whose two records have a record of the other
\* symbol between them, which is left as an open lot
C17_Witness ==
    /\ pc = "returned"
    /\ \E k \in DOMAIN matched_trades :
          /\ matched_trades[k].exit_trade = matched_trades[k].entry_trade + 2
          /\ raw_trades[matched_trades[k].entry_trade + 1].Symbol
                # matched_trades[k].Symbol
    /\ OpenLots # <<>>

(***************************************************************************)
(* C18  Hold time never negative                                           *)
(***************************************************************************)
IsDigits(str) == \A i \in DOMAIN str : \E d \in 0..9 : DigitChars[d + 1] = str[i]

\* the number a string of digits denotes
RECURSIVE NumberOf(_)
NumberOf(str) ==
    IF str = <<>> THEN 0
    ELSE NumberOf(SubSeq(str, 1, Len(str) - 1)) * 10
         + (CHOOSE d \in 0..9 : DigitChars[d + 1] = str[Len(str)])

\* the whole seconds from entry to exit, 0 when exit precedes entry
ElapsedSeconds ==
    IF exit_dt < entry_dt THEN 0 ELSE (exit_dt - entry_dt) \div TicksPerSecond

\* C18: calculate_hold_time returns the whole seconds of exit - entry as
\* hours:minutes:seconds, each field of two digits (the hours of more when
\* they reach 100), minutes and seconds below 60, and 00:00:00 whenever
\* exit precedes entry.
C18_HoldTime ==
    pc = "hold_done" =>
        LET n == Len(hold_time)
            hh == SubSeq(hold_time, 1, n - 6)
            mm == SubSeq(hold_time, n - 4, n - 3)
            ss == SubSeq(hold_time, n - 1, n)
        IN  /\ n >= 8
            /\ hold_time[n - 5] = ":"
            /\ hold_time[n - 2] = ":"
            /\ IsDigits(hh) /\ IsDigits(mm) /\ IsDigits(ss)
            /\ NumberOf(mm) < 60
            /\ NumberOf(ss) < 60
            /\ NumberOf(hh) * 3600 + NumberOf(mm) * 60 + NumberOf(ss)
                  = ElapsedSeconds
            /\ ElapsedSeconds < 360000 => n = 8
            /\ exit_dt < entry_dt =>
                  hold_time = <<"0", "0", ":", "0", "0", ":", "0", "0">>

\* the exit is a second and a fraction before the entry
C18_Witness ==
    /\ pc = "hold_done"
    /\ exit_dt + TicksPerSecond < entry_dt
    /\ (entry_dt - exit_dt) % TicksPerSecond # 0

(***************************************************************************)
(* C16  Ingestion validation                                               *)
(***************************************************************************)
\* the row has a symbol, a positive price, a positive quantity, a date
\* that parses and an action that names a side
RowValid(row) ==
    /\ row.symbol # ""
    /\ row.price > 0
    /\ row.quantity > 0
    /\ row.date_ok
    /\ Keywords(row.action) # {}

\* C16: a row with a non-positive price, a non-positive quantity, a date
\* that does not parse, no symbol or an action that names no side gives no
\* record to new_trades and none to the list passed to match_trades.
C16_IngestionValidation ==
    /\ \A k \in DOMAIN accepted_rows : RowValid(upload[accepted_rows[k]])
    /\ \A k \in DOMAIN passed_rows : RowValid(upload[passed_rows[k]])

(***************************************************************************)
(* C19  Option multiplier                                                  *)
(***************************************************************************)
\* the symbol has the option pattern: letters of a ticker, a date of six
\* digits, P or C, and the digits of a strike to the end of the symbol
HasOptionPattern(symbol) ==
    LET chars == Spelling(symbol)
    IN  \E a \in 1..Len(chars) :
            /\ a + 8 <= Len(chars)
            /\ IsUpperChar(chars[a])
            /\ AllDigits(chars, a + 1, a + 6)
            /\ chars[a + 7] \in {"P", "C"}
            /\ AllDigits(chars, a + 8, Len(chars))

\* price x quantity x 100 for a symbol with the option pattern, x 1 for
\* any other
NotionalAsStated(trade) ==
    trade.trade_value
      = trade.price * trade.Amount
          * (IF HasOptionPattern(trade.Symbol) THEN 100 ELSE 1)

\* C19: every record an importer builds has trade_value = price x quantity
\* x 100 if its symbol has the option pattern and price x quantity x 1
\* otherwise.
C19_OptionMultiplier ==
    \A k \in DOMAIN new_trades : NotionalAsStated(new_trades[k])

(***************************************************************************)
(* C20  Termination                                                        *)
(***************************************************************************)
\* every pass of an inner loop appends one trade; of the passes of one
\* step all but the last have popped the head lot, and the last has popped
\* it or has brought the quantity still to match to zero
StepIterations ==
    (pc = "loop" /\ t_pos' = t_pos + 1) =>
        LET passes == Len(matched_trades') - Len(matched_trades)
            popped == Len(OpenLots) - Len(buy_queue' \o sell_queue')
                        + (Len(lots_opened') - Len(lots_opened))
        IN  /\ passes >= popped
            /\ passes <= popped + 1
            /\ passes = popped + 1 => Len(lots_opened') = Len(lots_opened)

\* the lots opened by records of the symbol
LotsOpenedOf(symbol) ==
    Len(SelectSeq(lots_opened, LAMBDA l : raw_trades[l.trade].Symbol = symbol))

\* C20: match_trades returns on every input; every pass of an inner loop
\* pops the head lot or ends the loop with nothing left to match, so the
\* passes over a symbol (one per trade of the symbol) are at most its
\* records plus the lots it opened.
C20_Termination ==
    /\ <>(pc = "returned")
    /\ [][StepIterations]_vars
    /\ [](SymbolDone =>
              Len(TradesOf(CurrentSymbol, matched_trades))
                <= Len(trades) + LotsOpenedOf(CurrentSymbol))

\* returned after one closing record drained two lots in two passes
C20_Witness ==
    /\ pc = "returned"
    /\ Len(matched_trades) = 2
    /\ matched_trades[1].exit_trade = matched_trades[2].exit_trade
    /\ Len(lots_opened) = 2

(***************************************************************************)
(* C21  No hidden state and no input mutation                              *)
(***************************************************************************)
\* C21: no step of match_trades changes its argument: the input list and
\* every record in it keep the keys and the values they had at the call (a
\* record without the key _import_order has import_order = NoOrder).
C21_NoInputMutation == [][raw_trades' = raw_trades]_vars

(***************************************************************************)
(* C22  Cumulative P&L series                                              *)
(***************************************************************************)
\* the calendar day and the second of the day of an instant
DayOf(dt) == dt \div (86400 * TicksPerSecond)

SecondOfDay(dt) == (dt \div TicksPerSecond) % 86400

\* (Trade Date, Exit Time) of one trade is not after that of another
DateTimeNotAfter(m, n) ==
    \/ DayOf(m.ExitTime) < DayOf(n.ExitTime)
    \/ /\ DayOf(m.ExitTime) = DayOf(n.ExitTime)
       /\ SecondOfDay(m.ExitTime) <= SecondOfDay(n.ExitTime)

RECURSIVE SumPnl(_)
SumPnl(ms) == IF ms = <<>> THEN 0 ELSE Head(ms).pnl + SumPnl(Tail(ms))

\* C22: the series get_cumulative_pnl returns has one entry per trade of the
\* ledger, ordered by (Trade Date, Exit Time); the cumulative_pnl of an
\* entry is the sum of the PnL of the entry and of the entries before it,
\* and that of the last entry is the sum of PnL over the ledger.
C22_CumulativeSeries ==
    pc = "cumulative_done" =>
        /\ Len(series) = Len(trades_csv)
        /\ {series[i].row : i \in DOMAIN series} = DOMAIN trades_csv
        /\ \A i \in DOMAIN series : series[i].pnl = trades_csv[series[i].row].pnl
        /\ \A i, j \in DOMAIN series :
               i < j => DateTimeNotAfter(trades_csv[series[i].row],
                                         trades_csv[series[j].row])
        /\ \A i \in DOMAIN series :
               series[i].cumulative_pnl = SumPnl(SubSeq(series, 1, i))
        /\ series # <<>> =>
               series[Len(series)].cumulative_pnl = SumPnl(trades_csv)

\* two trades with a gain each, the later of the ledger the earlier by date
C22_Witness ==
    /\ pc = "cumulative_done"
    /\ Len(series) = 2
    /\ series[1].row = 2
    /\ series[1].pnl > 0
    /\ series[2].pnl > 0
    /\ series[2].cumulative_pnl = series[1].pnl + series[2].pnl

(***************************************************************************)
(* C23  Net position                                                       *)
(***************************************************************************)
\* the records of the current symbol processed so far
ProcessedPrefix == SubSeq(trades, 1, t_pos)

RECURSIVE SumAmountOfSide(_, _, _)
SumAmountOfSide(raw, side, idxs) ==
    IF idxs = <<>> THEN 0
    ELSE (IF raw[Head(idxs)].Action = side THEN raw[Head(idxs)].Amount ELSE 0)
           + SumAmountOfSide(raw, side, Tail(idxs))

BoughtSoFar == SumAmountOfSide(raw_trades, "Buy", ProcessedPrefix)

SoldSoFar == SumAmountOfSide(raw_trades, "Sell", ProcessedPrefix)

\* C23: after any prefix of a symbol's sorted records, the remaining
\* quantity of the open lots is |Buys - Sells| of the prefix, all of it in
\* buy_queue when Buys exceed Sells and all of it in sell_queue when Sells
\* exceed Buys, and the matched quantity of the symbol is min(Buys, Sells).
C23_NetPosition ==
    (pc \in {"loop", "returned"} /\ sym_pos >= 1) =>
        /\ OpenOfCurrent = Abs(BoughtSoFar - SoldSoFar)
        /\ BoughtSoFar > SoldSoFar =>
               sell_queue = <<>> /\ SumRemaining(buy_queue) = BoughtSoFar - SoldSoFar
        /\ SoldSoFar > BoughtSoFar =>
               buy_queue = <<>> /\ SumRemaining(sell_queue) = SoldSoFar - BoughtSoFar
        /\ MatchedOfCurrent = Min(BoughtSoFar, SoldSoFar)

\* a short position was closed and flipped to a long position, which a
\* Sell then reduced
C23_Witness ==
    /\ pc = "loop"
    /\ t_pos = 3
    /\ BoughtSoFar = 2
    /\ SoldSoFar = 2
    /\ Len(matched_trades) = 2
    /\ matched_trades[1].Side = "Short"
    /\ matched_trades[2].Side = "Long"
    /\ OpenOfCurrent = 0

(***************************************************************************)
(* C24  Cash conservation                                                  *)
(***************************************************************************)
RECURSIVE SumNotionalOfSide(_, _, _)
SumNotionalOfSide(raw, side, idxs) ==
    IF idxs = <<>> THEN 0
    ELSE (IF raw[Head(idxs)].Action = side THEN raw[Head(idxs)].trade_value ELSE 0)
           + SumNotionalOfSide(raw, side, Tail(idxs))

\* C24: when a symbol's records are all processed and both of its queues
\* are empty, the sum of pnl over the symbol's matched trades equals the
\* notional of its Sell records minus the notional of its Buy records.
C24_CashConservation ==
    (SymbolDone /\ buy_queue = <<>> /\ sell_queue = <<>>) =>
        SumPnl(TradesOf(CurrentSymbol, matched_trades))
          = SumNotionalOfSide(raw_trades, "Sell", by_symbol[sym_pos].trades)
            - SumNotionalOfSide(raw_trades, "Buy", by_symbol[sym_pos].trades)

(***************************************************************************)
(* C25  Fee conservation                                                   *)
(***************************************************************************)
AddFrac(a, b) == [num |-> a.num * b.den + b.num * a.den, den |-> a.den * b.den]

\* exit_fees of a matched trade: the closing record's fee by its Amount
ExitShare(m) ==
    [num |-> raw_trades[m.exit_trade].fees * m.Quantity,
     den |-> raw_trades[m.exit_trade].Amount]

\* entry_fees of a matched trade: its fees less exit_fees
EntryShare(m) ==
    AddFrac(m.fees, [num |-> -ExitShare(m).num, den |-> ExitShare(m).den])

\* what the matched trades ms charge to record i, as opening or as closing
\* record
RECURSIVE FeesCharged(_, _)
FeesCharged(i, ms) ==
    IF ms = <<>> THEN [num |-> 0, den |-> 1]
    ELSE LET m == Head(ms)
             entry == IF m.entry_trade = i THEN EntryShare(m)
                      ELSE [num |-> 0, den |-> 1]
             exit == IF m.exit_trade = i THEN ExitShare(m)
                     ELSE [num |-> 0, den |-> 1]
         IN  AddFrac(AddFrac(entry, exit), FeesCharged(i, Tail(ms)))

\* the quantity of record i that the matched trades ms have used
RECURSIVE QuantityUsed(_, _)
QuantityUsed(i, ms) ==
    IF ms = <<>> THEN 0
    ELSE (IF Head(ms).entry_trade = i \/ Head(ms).exit_trade = i
          THEN Head(ms).Quantity ELSE 0) + QuantityUsed(i, Tail(ms))

\* C25: the fee shares the matched trades charge to an input record never
\* exceed the record's fee, and equal it once the record's whole quantity
\* is matched.
C25_FeeConservation ==
    \A i \in DOMAIN raw_trades :
        LET charged == FeesCharged(i, matched_trades)
        IN  /\ charged.num <= raw_trades[i].fees * charged.den
            /\ QuantityUsed(i, matched_trades) = raw_trades[i].Amount =>
                   charged.num = raw_trades[i].fees * charged.den

(***************************************************************************)
(* C26  Failed import leaves state unchanged                               *)
(***************************************************************************)
\* the stored records as numbers again
Typed(stored) == [i \in DOMAIN stored |-> [stored[i] EXCEPT !.text = FALSE]]

\* C26: when import_with_mapping has answered 400, raw_imports.csv and
\* trades.csv are as they were when the request arrived; and after every
\* answer trades.csv is the result of matching the records of
\* raw_imports.csv.
C26_FailedImportUnchanged ==
    /\ response = "400" =>
           /\ raw_imports_csv = data_before.raw_imports
           /\ trades_csv = data_before.trades
    /\ response \in {"200", "400"} =>
           trades_csv = MatchTrades(Typed(raw_imports_csv))

(***************************************************************************)
(* C27  Duplicate suppression                                              *)
(***************************************************************************)
\* no two records of raw_imports.csv have the same key
StoreKeysDiffer ==
    \A i, j \in DOMAIN raw_imports_csv :
        i # j => DedupKey(raw_imports_csv[i]) # DedupKey(raw_imports_csv[j])

\* the k-th accepted row has the key of a record stored before the request
\* or of an accepted row before it
IsDuplicateRow(k) ==
    \/ DedupKey(new_trades[k]) \in KeysOf(data_before.raw_imports)
    \/ \E j \in 1..(k - 1) : DedupKey(new_trades[j]) = DedupKey(new_trades[k])

\* the duplicates were dropped: the request is past lines 652-676
Merged == response # "none" /\ pc # "rows"

\* C27: no two stored records share (Symbol, Action, Amount, price); an
\* accepted row whose key is stored already or came earlier in the upload
\* is counted in duplicate_count and not stored, whatever its date, every
\* other accepted row is stored, and in the answer imported_count plus
\* duplicate_count is the number of accepted rows.
C27_DuplicateSuppression ==
    /\ StoreKeysDiffer
    /\ Merged =>
           /\ \A k \in DOMAIN accepted_rows :
                  IsDuplicateRow(k)
                    <=> ~(\E n \in DOMAIN passed_rows :
                              passed_rows[n] = accepted_rows[k])
           /\ duplicate_count
                = Cardinality({k \in DOMAIN accepted_rows : IsDuplicateRow(k)})
           /\ Len(raw_imports_csv)
                = Len(data_before.raw_imports) + Len(passed_rows)
           /\ \A n \in DOMAIN passed_rows :
                  \E k \in DOMAIN accepted_rows :
                      /\ accepted_rows[k] = passed_rows[n]
                      /\ DedupKey(raw_imports_csv[Len(data_before.raw_imports) + n])
                           = DedupKey(new_trades[k])
    /\ response = "200" =>
           imported_count + duplicate_count = Len(accepted_rows)

\* an answered upload with a record in the store: one row stored and its
\* repetition, of a later date, dropped
C27_Witness ==
    /\ response = "200"
    /\ data_before.raw_imports # <<>>
    /\ imported_count = 1
    /\ duplicate_count = 1
    /\ Len(upload) = 2
    /\ upload[1].time # upload[2].time

(***************************************************************************)
(* C28  Entry never follows exit                                           *)
(***************************************************************************)
\* record a comes before record b under (timestamp, import order)
KeyBefore(raw, a, b) ==
    \/ raw[a].order_datetime < raw[b].order_datetime
    \/ /\ raw[a].order_datetime = raw[b].order_datetime
       /\ a < b

\* the seconds an hours:minutes:seconds text denotes
SecondsOf(text) ==
    LET n == Len(text)
    IN  NumberOf(SubSeq(text, 1, n - 6)) * 3600
          + NumberOf(SubSeq(text, n - 4, n - 3)) * 60
          + NumberOf(SubSeq(text, n - 1, n))

\* C28: the record that opened the lot of a matched trade comes before the
\* closing record in the order (timestamp, import order); the exit is not
\* before the entry, and Hold Time is the whole seconds from entry to exit.
C28_EntryBeforeExit ==
    \A k \in DOMAIN matched_trades :
        LET m == matched_trades[k]
        IN  /\ KeyBefore(raw_trades, m.entry_trade, m.exit_trade)
            /\ m.EntryTime = raw_trades[m.entry_trade].order_datetime
            /\ m.ExitTime = raw_trades[m.exit_trade].order_datetime
            /\ m.ExitTime >= m.EntryTime
            /\ SecondsOf(m.HoldTime)
                 = (m.ExitTime - m.EntryTime) \div TicksPerSecond

\* a trade held for half a day whose closing row stands before its opening
\* row in the upload
C28_Witness ==
    \E k \in DOMAIN matched_trades :
        /\ matched_trades[k].exit_trade < matched_trades[k].entry_trade
        /\ SecondsOf(matched_trades[k].HoldTime) = 43200

(***************************************************************************)
(* C29  Input-order independence                                           *)
(***************************************************************************)
\* the rearrangements of a list of n records
Rearrangements(n) ==
    {p \in [1..n -> 1..n] : \A i, j \in 1..n : i # j => p[i] # p[j]}

Rearranged(raw, p) == [i \in DOMAIN raw |-> raw[p[i]]]

\* the trades of one symbol in the ledger match_trades returns for raw
LedgerOf(symbol, raw) == TradesOf(symbol, StripRefs(MatchTrades(raw)))

\* C29: the timestamps of the input differ; for every rearrangement of the
\* input list match_trades returns, for each symbol, the same trades in the
\* same order as for the list it was called with.
C29_OrderIndependence ==
    pc = "returned" =>
        \A p \in Rearrangements(Len(raw_trades)) :
            \A symbol \in Symbols :
                LedgerOf(symbol, Rearranged(raw_trades, p))
                  = TradesOf(symbol, StripRefs(matched_trades))

\* two trades of one symbol: the list in reverse gives them again, in the
\* same order
C29_Witness ==
    /\ pc = "returned"
    /\ Len(raw_trades) = 3
    /\ Len(matched_trades) = 2
    /\ matched_trades[1].exit_trade # matched_trades[2].exit_trade
    /\ StripRefs(MatchTrades(Rearranged(raw_trades,
                                        [i \in 1..3 |-> 4 - i])))
         = StripRefs(matched_trades)

(***************************************************************************)
(* C30  Unrecognized side is a no-op                                       *)
(***************************************************************************)
\* the action texts that, upper-cased, hold none of BUY, OPENING, SELL,
\* CLOSING
NoSideTexts == {"Dividend"}

\* the action texts that, upper-cased, hold BUY or OPENING
BuySideTexts == {"Buy", "Sell Opening", "buy closing"}

\* one iteration of the loop over a symbol's records: on a record that
\* names no side the ledger, the lots and both queues stay as they are; on
\* a record that names BUY or OPENING the iteration is that of a Buy: the
\* trades it adds are Short trades, no short lot is added, and what it does
\* not match goes to buy_queue
StepTreatsSide ==
    (pc = "loop" /\ t_pos < Len(trades) /\ t_pos' = t_pos + 1) =>
        LET record == raw_trades[trades[t_pos + 1]]
            added == Appended(matched_trades, matched_trades')
        IN  /\ record.Action \in NoSideTexts =>
                /\ matched_trades' = matched_trades
                /\ lots_opened' = lots_opened
                /\ buy_queue' = buy_queue
                /\ sell_queue' = sell_queue
            /\ record.Action \in BuySideTexts =>
                /\ \A k \in DOMAIN added :
                       added[k].Side = "Short" /\ added[k].ExitAction = "Buy"
                /\ SumRemaining(sell_queue')
                     = SumRemaining(sell_queue) - SumQuantity(added)
                /\ SumRemaining(buy_queue')
                     = SumRemaining(buy_queue) + record.Amount
                       - SumQuantity(added)
                /\ lots_opened' # lots_opened =>
                       lots_opened'[Len(lots_opened')].side = "Buy"

\* C30: a record whose Action holds none of BUY, OPENING, SELL, CLOSING
\* gives no trade and no lot and leaves both queues alone; a record whose
\* Action holds BUY or OPENING is treated as a Buy also when it holds SELL
\* or CLOSING.
C30_UnrecognizedSide == [][StepTreatsSide]_vars

\* a record 'Sell Opening' has opened a long lot and a record 'Dividend'
\* after it left the lot in buy_queue
C30_Witness ==
    /\ pc = "loop"
    /\ t_pos = 2
    /\ raw_trades[trades[1]].Action = "Sell Opening"
    /\ raw_trades[trades[2]].Action = "Dividend"
    /\ lots_opened = <<[side |-> "Buy", trade |-> trades[1]]>>
    /\ Len(buy_queue) = 1
    /\ buy_queue[1].remaining_qty = raw_trades[trades[1]].Amount
    /\ sell_queue = <<>>
    /\ matched_trades = <<>>

=============================================================================
